---- MODULE Spec2Model ----
(***************************************************************************)
(* A model of analyze_spectra.py: the three classifications of Raman       *)
(* spectra into strong and weak observations (Otsu threshold, IQR          *)
(* outliers, match against the media file) and the 10-minute temporal      *)
(* counts of the weak observations.                                        *)
(*                                                                         *)
(* The file is a Colab notebook exported as a script.  Its module-level    *)
(* names are the state; each analysis section is one action, run in file   *)
(* order (pc).  When the last section has run, a classification section    *)
(* can be executed again, as a notebook allows.                            *)
(*                                                                         *)
(* Numbers.  Intensities are floats in the program; here they are          *)
(* integers, and every derived quantity is kept exact as an integer        *)
(* numerator over a fixed denominator:                                     *)
(*   threshold          numerator over 2 * nbins                           *)
(*   threshold_relaxed  numerator over 2 * nbins * RelaxDen                *)
(*   quartiles, fences  numerator over QuantileDen                         *)
(* Timestamps are minutes.  Observation indexes are 0-based as in the      *)
(* program; row i of a matrix is element i + 1 of its sequence.            *)
(***************************************************************************)
EXTENDS Integers, Sequences, FiniteSets, TLC

(***************************************************************************)
(* Bounds of the model                                                     *)
(***************************************************************************)
\* observations of a two-column measurement file
MaxN == 2
\* observations of a one-column measurement file
MaxTall == 5
\* observations of a measurement file whose timestamps are enumerated
MaxObs == 4

(***************************************************************************)
(* Constants of the program                                                *)
(***************************************************************************)
\* threshold_otsu's default number of histogram bins
nbins == 256
\* threshold * 0.715, as RelaxNum / RelaxDen
RelaxNum == 715
RelaxDen == 1000
\* lower_bound = q1 - 5 * iqr, upper_bound = q3 + 4 * iqr
LowerMult == 5
UpperMult == 4
\* quantile(0.25) and quantile(0.75) lie on a grid of quarters
QuantileDen == 4
\* the measurement and media files have 10 header columns ...
startcol == 10
\* ... wave_num = measurement_df.iloc[:, 10:].columns
WaveStart == 10
\* ... media_df.iloc[:, 11:] and measurement_df.iloc[:, 11:]
MatchStart == 11
\* dt.floor('10Min'), pd.Timedelta(minutes=10)
BucketMinutes == 10
\* a timestamp the index alignment of a column assignment leaves missing
NaT == -1

(***************************************************************************)
(* Sequences and sets                                                      *)
(***************************************************************************)
Range(s) == {s[i] : i \in 1..Len(s)}

MaxOf(S) == CHOOSE m \in S : \A v \in S : v <= m

MinOf(S) == CHOOSE m \in S : \A v \in S : m <= v

\* the elements of a set of integers in ascending order
RECURSIVE Ascending(_)
Ascending(S) == IF S = {} THEN <<>> ELSE <<MinOf(S)>> \o Ascending(S \ {MinOf(S)})

\* the 0-based positions at which a sequence of booleans is true, in order
Where(flags) == Ascending({i \in 0..(Len(flags) - 1) : flags[i + 1]})

\* the elements j >= from (1-based) of a row
ColumnsFrom(row, from) == [k \in 1..(IF Len(row) >= from THEN Len(row) - from + 1 ELSE 0) |-> row[k + from - 1]]

\* the number of positions of s holding v
CountOf(s, v) == Cardinality({i \in 1..Len(s) : s[i] = v})

RECURSIVE SumSeq(_)
SumSeq(s) == IF s = <<>> THEN 0 ELSE Head(s) + SumSeq(Tail(s))

(***************************************************************************)
(* Data frames.  A frame is [columns, DateTime, values]: the wavenumber    *)
(* labels, the DateTime header column and the intensity rows.  The         *)
(* startcol header columns come first, so column position c of the frame   *)
(* is element c - startcol + 1 of a row of values.                         *)
(***************************************************************************)
\* pd.concat([df1, df2], axis=1)
DataFrame(head, wn, ints) == [columns |-> wn, DateTime |-> head, values |-> ints]

NoFrame == [columns |-> <<>>, DateTime |-> <<>>, values |-> <<>>]

\* frame.iloc[:, c:] of one row of values
Iloc(row, c) == ColumnsFrom(row, c - startcol + 1)

\* frame.iloc[:, c:].values
IlocValues(frame, c) == [i \in 1..Len(frame.values) |-> Iloc(frame.values[i], c)]

\* the 1-based elements of a row that frame.iloc[:, c:].columns names
IlocColumns(frame, c) == {j \in 1..Len(frame.columns) : j >= c - startcol + 1}

\* frame[col] as a sequence over the rows
Column(frame, j) == [i \in 1..Len(frame.values) |-> frame.values[i][j]]

(***************************************************************************)
(* Approach 1: Otsu threshold on the peak intensities                      *)
(***************************************************************************)
\* np.max(intensities, axis=1)
PeakIntensities(ints) == [i \in 1..Len(ints) |-> MaxOf(Range(ints[i]))]

\* np.histogram over nbins equal bins of [lo, hi]: the bin of value p
HistogramBin(p, lo, hi) ==
    IF p = hi THEN nbins - 1 ELSE ((p - lo) * nbins) \div (hi - lo)

\* variance12[k] = weight1[k] * weight2[k+1] * (mean1[k] - mean2[k+1]) ** 2
\* as a fraction.  The bin centres are lo + (2j + 1)(hi - lo) / (2 nbins);
\* the means are taken over the bin numbers j, which scales every
\* variance12[k] by the same positive factor.
Variance12(bins) ==
    [k \in 0..(nbins - 2) |->
        LET below == {i \in 1..Len(bins) : bins[i] <= k}
            above == {i \in 1..Len(bins) : bins[i] > k}
            weight1 == Cardinality(below)
            weight2 == Cardinality(above)
            sum1 == SumSeq([n \in 1..Len(bins) |-> IF bins[n] <= k THEN bins[n] ELSE 0])
            sum2 == SumSeq([n \in 1..Len(bins) |-> IF bins[n] > k THEN bins[n] ELSE 0])
            diff == sum1 * weight2 - sum2 * weight1
        IN  [num |-> diff * diff, den |-> weight1 * weight2]]

\* a > b for fractions with positive denominators
Greater(a, b) == a.num * b.den > b.num * a.den

\* np.argmax over v[a..b]: the first index holding the maximum
RECURSIVE ArgMaxIn(_, _, _)
ArgMaxIn(v, a, b) ==
    IF a = b THEN a
    ELSE LET mid == (a + b) \div 2
             left == ArgMaxIn(v, a, mid)
             right == ArgMaxIn(v, mid + 1, b)
         IN  IF Greater(v[right], v[left]) THEN right ELSE left

ArgMax(v) == ArgMaxIn(v, 0, nbins - 2)

\* skimage.filters.threshold_otsu(image), as a numerator over 2 * nbins.
\* An image of one value returns that value.
ThresholdOtsu(image) ==
    LET first_pixel == image[1]
        lo == MinOf(Range(image))
        hi == MaxOf(Range(image))
        bins == [i \in 1..Len(image) |-> HistogramBin(image[i], lo, hi)]
        idx == ArgMax(Variance12(bins))
    IN  IF \A i \in 1..Len(image) : image[i] = first_pixel
        THEN first_pixel * (2 * nbins)
        ELSE lo * (2 * nbins) + (2 * idx + 1) * (hi - lo)

\* the threshold left as Otsu gives it
ThresholdNotRelaxed(thr, factor) == thr * RelaxDen

\* threshold * 0.715, as a numerator over 2 * nbins * RelaxDen
ThresholdRelaxed(thr, factor) == thr * factor

\* the comparison turned around
AtMostThreshold(intensity, thr_relaxed) ==
    intensity * (2 * nbins * RelaxDen) <= thr_relaxed

\* intensity >= threshold_relaxed
AtLeastThreshold(intensity, thr_relaxed) ==
    intensity * (2 * nbins * RelaxDen) >= thr_relaxed

\* the loop over enumerate(peak_intensities): the if branch
StrongSpectra(peaks, thr_relaxed) ==
    Where([i \in 1..Len(peaks) |-> AtLeastThreshold(peaks[i], thr_relaxed)])

\* a second test in place of the else branch
WeakSpectraAtMost(peaks, thr_relaxed) ==
    Where([i \in 1..Len(peaks) |-> peaks[i] * (2 * nbins * RelaxDen) <= thr_relaxed])

\* the loop over enumerate(peak_intensities): the else branch
WeakSpectra(peaks, thr_relaxed) ==
    Where([i \in 1..Len(peaks) |-> ~AtLeastThreshold(peaks[i], thr_relaxed)])

(***************************************************************************)
(* Subsets of the measurement frame.  A subset is a sequence of rows       *)
(* [index, DateTime, values]: index is the row's label in measurement_df.  *)
(* After reset_index() the label of row k is k - 1 and index is a column.  *)
(***************************************************************************)
\* measurement_df[measurement_df.index.isin(keep)], keep a set of labels
RowsIn(frame, keep) ==
    LET idx == Ascending({i \in 0..(Len(frame.values) - 1) : i \in keep})
    IN  [k \in 1..Len(idx) |->
            [index |-> idx[k],
             DateTime |-> frame.DateTime[idx[k] + 1],
             values |-> frame.values[idx[k] + 1]]]

\* measurement_df[~measurement_df.index.isin(drop)]
RowsNotIn(frame, drop) == RowsIn(frame, (0..(Len(frame.values) - 1)) \ drop)

\* the labels of the rows of a subset that was not re-indexed
Labels(rows) == {rows[k].index : k \in 1..Len(rows)}

(***************************************************************************)
(* Temporal distribution of a subset                                       *)
(***************************************************************************)
\* Series.dt.floor('10Min'); NaT stays NaT
Floor10Min(t) == IF t = NaT THEN NaT ELSE t - (t % BucketMinutes)

\* Series.value_counts(): the count of each value present, NaT dropped
ValueCounts(col) == [b \in Range(col) \ {NaT} |-> CountOf(col, b)]

\* sorted the other way round
SortIndexDescending(counts) ==
    LET starts == Ascending(DOMAIN counts)
        n == Len(starts)
    IN  [k \in 1..n |-> [start |-> starts[n + 1 - k], count |-> counts[starts[n + 1 - k]]]]

\* Series.sort_index(): ascending by bucket start
SortIndex(counts) ==
    LET starts == Ascending(DOMAIN counts)
    IN  [k \in 1..Len(starts) |-> [start |-> starts[k], count |-> counts[starts[k]]]]

\* df['dateTime_rounded'].value_counts().sort_index()
CountByPeriod(datetimes) ==
    SortIndex(ValueCounts([k \in 1..Len(datetimes) |-> Floor10Min(datetimes[k])]))

\* count_by_period.index
IntervalStart(counts) == [k \in 1..Len(counts) |-> counts[k].start]

\* interval_start + pd.Timedelta(minutes=10)
IntervalEnd(starts) == [k \in 1..Len(starts) |-> starts[k] + BucketMinutes]

\* measurement_weak['DateTime'] = pd.to_datetime(df['DateTime']): the
\* assignment aligns df's labels with the labels 0, 1, ... of measurement_weak
AlignedDateTime(rows, source) ==
    [k \in 1..Len(rows) |->
        IF \E n \in 1..Len(source) : source[n].index = k - 1
        THEN source[CHOOSE n \in 1..Len(source) : source[n].index = k - 1].DateTime
        ELSE NaT]

(***************************************************************************)
(* Approach 2: IQR outliers per wavenumber                                 *)
(***************************************************************************)
\* Series.quantile(q4 / 4), linear interpolation, as a numerator over
\* QuantileDen: position q4 * (n - 1) / 4 of the sorted column
Quantile(col, q4) ==
    LET sorted == SortSeq(col, LAMBDA a, b : a < b)
        pos == q4 * (Len(col) - 1)
        lowIdx == pos \div QuantileDen
        frac == pos % QuantileDen
    IN  IF frac = 0 THEN QuantileDen * sorted[lowIdx + 1]
        ELSE QuantileDen * sorted[lowIdx + 1]
                 + frac * (sorted[lowIdx + 2] - sorted[lowIdx + 1])

\* the upper fence taken below q3
BoundsUpperSubtracted(col, k_lo, k_hi) ==
    LET q1 == Quantile(col, 1)
        q3 == Quantile(col, 3)
        iqr == q3 - q1
    IN  [lower_bound |-> q1 - k_lo * iqr, upper_bound |-> q3 - k_hi * iqr]

\* lower_bound and upper_bound of a column, numerators over QuantileDen
Bounds(col, k_lo, k_hi) ==
    LET q1 == Quantile(col, 1)
        q3 == Quantile(col, 3)
        iqr == q3 - q1
    IN  [lower_bound |-> q1 - k_lo * iqr, upper_bound |-> q3 + k_hi * iqr]

\* (measurement_df[wave] < lower_bound) | (measurement_df[wave] > upper_bound)
StrictlyOutside(v, b) ==
    QuantileDen * v < b.lower_bound \/ QuantileDen * v > b.upper_bound

\* (measurement_df[col] <= lower_bound) | (measurement_df[col] >= upper_bound)
OnOrOutside(v, b) ==
    QuantileDen * v <= b.lower_bound \/ QuantileDen * v >= b.upper_bound

\* the wavenumber columns with at least one value strictly outside
Outlier(frame, k_lo, k_hi) ==
    Ascending({j \in IlocColumns(frame, WaveStart) :
        LET b == Bounds(Column(frame, j), k_lo, k_hi)
        IN  \E i \in 1..Len(frame.values) : StrictlyOutside(frame.values[i][j], b)})

\* filtered_values[col].index.values of one outlier column
FilteredIndex(frame, j, k_lo, k_hi) ==
    LET col == Column(frame, j)
        b == Bounds(col, k_lo, k_hi)
    IN  Where([i \in 1..Len(col) |-> OnOrOutside(col[i], b)])

\* strong_spectra_approach2.extend(max_index) over the outlier columns
RECURSIVE StrongSpectraApproach2(_, _, _, _)
StrongSpectraApproach2(frame, cols, k_lo, k_hi) ==
    IF cols = <<>> THEN <<>>
    ELSE FilteredIndex(frame, Head(cols), k_lo, k_hi)
             \o StrongSpectraApproach2(frame, Tail(cols), k_lo, k_hi)

(***************************************************************************)
(* Approach 3: match against the media intensities                         *)
(***************************************************************************)
\* the values np.isin tests against: every element of media_intensities
Flattened(matrix) == UNION {Range(matrix[i]) : i \in 1..Len(matrix)}

\* np.logical_not(np.isin(measurement_df.iloc[:, 11:].values,
\*                        media_intensities).all(axis=1))
Mask(frame, media) ==
    [i \in 1..Len(frame.values) |->
        ~(\A v \in Range(Iloc(frame.values[i], MatchStart)) : v \in Flattened(media))]

\* measurement_df[mask].index
MaskedLabels(mask) == {i \in 0..(Len(mask) - 1) : mask[i + 1]}

\* measurement_df[~mask].index.tolist()
NonMatchingIndexes(mask) == Where([i \in 1..Len(mask) |-> ~mask[i]])

(***************************************************************************)
(* State: the module-level names of the script                             *)
(***************************************************************************)
VARIABLES
    wavenumbers, intensities, header_columns,
    wavenumbers_media, intensities_media, header_columns_media,
    measurement_df, media_df,
    peak_intensities, threshold, threshold_relaxed, strong_spectra, weak_spectra,
    df, count_by_period, interval_start, interval_end,
    outlier, strong_spectra_approach2, measurement_weak,
    media_intensities, mask, strong_filtered_measurement_df, non_matching_indexes,
    pc

loaded == <<wavenumbers_media, intensities_media, header_columns_media, header_columns>>
frames == <<measurement_df, media_df>>
approach1 == <<peak_intensities, threshold, threshold_relaxed, strong_spectra, weak_spectra>>
temporal == <<df, count_by_period, interval_start, interval_end>>
approach2 == <<outlier, strong_spectra_approach2, measurement_weak>>
approach3 == <<media_intensities, mask, strong_filtered_measurement_df, non_matching_indexes>>
vars == <<wavenumbers, intensities, loaded, frames, approach1, temporal, approach2, approach3, pc>>

(***************************************************************************)
(* Input files                                                             *)
(***************************************************************************)
\* the intensity values a file may hold
Values == {-1, 0, 10}

\* the intensity values of the files whose timestamps are enumerated
TwoValues == {0, 10}

\* the minutes at which an observation may be taken
TimeSet == {1, 11, 35}

Matrices(n, f, vals) == [1..n -> [1..f -> vals]]

\* a wavenumber axis of f columns
Axis(f) == [j \in 1..f |-> 100 * j]

\* an axis of f columns with other wavenumbers
ShiftedAxis(f) == [j \in 1..f |-> 100 * j + 50]

\* observation i (1-based) taken at minute i * i
SampleTimes(n) == [i \in 1..n |-> i * i]

ConstantRow(f, v) == [j \in 1..f |-> v]

\* media files read with a measurement file of f columns: one observation,
\* on the same axis, on an axis of other wavenumbers or on a longer axis
MediaFiles(f) ==
    {[wavenumbers |-> Axis(f), intensities |-> <<ConstantRow(f, v)>>] : v \in TwoValues}
    \cup {[wavenumbers |-> ShiftedAxis(f), intensities |-> <<ConstantRow(f, 0)>>],
          [wavenumbers |-> Axis(f + 1), intensities |-> <<ConstantRow(f + 1, 0)>>]}

\* the shapes (observations, columns) of the measurement files of Spec
Shapes == {<<n, 2>> : n \in 1..MaxN} \cup {<<n, 1>> : n \in 1..MaxTall}

\* the state after both readcsv calls, nothing computed yet
LoadedOn(axis, ints, times, media) ==
    /\ intensities = ints
    /\ wavenumbers = axis
    /\ header_columns = times
    /\ wavenumbers_media = media.wavenumbers
    /\ intensities_media = media.intensities
    /\ header_columns_media = SampleTimes(Len(media.intensities))
    /\ measurement_df = NoFrame
    /\ media_df = NoFrame
    /\ peak_intensities = <<>>
    /\ threshold = 0
    /\ threshold_relaxed = 0
    /\ strong_spectra = <<>>
    /\ weak_spectra = <<>>
    /\ df = <<>>
    /\ count_by_period = <<>>
    /\ interval_start = <<>>
    /\ interval_end = <<>>
    /\ outlier = <<>>
    /\ strong_spectra_approach2 = <<>>
    /\ measurement_weak = <<>>
    /\ media_intensities = <<>>
    /\ mask = <<>>
    /\ strong_filtered_measurement_df = <<>>
    /\ non_matching_indexes = <<>>
    /\ pc = "measurement_df"

\* a measurement file with at least one observation, on the axis Axis
Loaded(ints, times, media) == LoadedOn(Axis(Len(ints[1])), ints, times, media)

\* every measurement file of the shapes of Spec, sampled at SampleTimes
Init ==
    \E shape \in Shapes :
        \E ints \in Matrices(shape[1], shape[2], Values) :
            \E media \in MediaFiles(shape[2]) :
                Loaded(ints, SampleTimes(shape[1]), media)

\* one-column files of two values with every choice of timestamps
InitTemporal ==
    \E n \in 1..MaxObs :
        \E ints \in Matrices(n, 1, TwoValues) :
            \E times \in [1..n -> TimeSet] :
                Loaded(ints, times, [wavenumbers |-> Axis(1), intensities |-> <<ConstantRow(1, 0)>>])

\* the measurement files of the worked examples: three flat spectra and a
\* tenfold one; a spectrum equal to the media spectrum, one that differs
\* from it in the last column and one that differs in the first
ScenarioFiles ==
    {<<<<1, 1, 1>>, <<1, 1, 1>>, <<1, 1, 1>>, <<10, 10, 10>>>>,
     <<<<2, 3, 4>>, <<2, 3, 5>>, <<5, 3, 4>>>>}

ScenarioTimes == {1, 4, 11, 25}

ScenarioMedia == [wavenumbers |-> Axis(3), intensities |-> <<<<2, 3, 4>>>>]

InitScenario ==
    \E ints \in ScenarioFiles :
        \E times \in [1..Len(ints) -> ScenarioTimes] :
            Loaded(ints, times, ScenarioMedia)

\* a measurement file of f columns that holds the header row only:
\* nMeasurements = 0, intensities = np.zeros((0, nFeatures))
EmptyFile(f, media) == LoadedOn(Axis(f), <<>>, <<>>, media)

\* the files of Spec and the files without observations
InitRunAll ==
    \/ Init
    \/ \E f \in {shape[2] : shape \in Shapes} :
           \E media \in MediaFiles(f) : EmptyFile(f, media)

(***************************************************************************)
(* The sections of the script, in file order                               *)
(***************************************************************************)
\* lines 143-150: measurement_df
BuildMeasurementDf ==
    /\ pc = "measurement_df"
    /\ measurement_df' = DataFrame(header_columns, wavenumbers, intensities)
    /\ pc' = "threshold"
    /\ UNCHANGED <<wavenumbers, intensities, loaded, media_df, approach1, temporal, approach2, approach3>>

\* lines 172-185: peak intensities, Otsu threshold, relaxed threshold.
\* threshold_otsu raises on no peak intensities (it reads the first one);
\* the exception is not caught anywhere and ends the script.
Approach1Threshold ==
    /\ pc = "threshold"
    /\ peak_intensities' = PeakIntensities(intensities)
    /\ IF Len(intensities) = 0
       THEN /\ pc' = "raised"
            /\ UNCHANGED <<threshold, threshold_relaxed>>
       ELSE /\ threshold' = ThresholdOtsu(peak_intensities')
            /\ threshold_relaxed' = ThresholdRelaxed(threshold', RelaxNum)
            /\ pc' = "classify"
    /\ UNCHANGED <<wavenumbers, intensities, loaded, frames, strong_spectra, weak_spectra, temporal, approach2, approach3>>

\* lines 229-238: strong_spectra and weak_spectra
Approach1Classify ==
    /\ pc = "classify"
    /\ strong_spectra' = StrongSpectra(peak_intensities, threshold_relaxed)
    /\ weak_spectra' = WeakSpectra(peak_intensities, threshold_relaxed)
    /\ pc' = "temporal1"
    /\ UNCHANGED <<wavenumbers, intensities, loaded, frames, peak_intensities, threshold, threshold_relaxed, temporal, approach2, approach3>>

\* lines 312-326: the weak observations of approach 1 per 10 minutes
Approach1Temporal ==
    /\ pc = "temporal1"
    /\ df' = RowsNotIn(measurement_df, Range(strong_spectra))
    /\ count_by_period' = CountByPeriod([k \in 1..Len(df') |-> df'[k].DateTime])
    /\ interval_start' = IntervalStart(count_by_period')
    /\ interval_end' = IntervalEnd(interval_start')
    /\ pc' = "outlier"
    /\ UNCHANGED <<wavenumbers, intensities, loaded, frames, approach1, approach2, approach3>>

\* lines 371-382: the wavenumbers that have outliers
Approach2Outlier ==
    /\ pc = "outlier"
    /\ outlier' = Outlier(measurement_df, LowerMult, UpperMult)
    /\ pc' = "strong2"
    /\ UNCHANGED <<wavenumbers, intensities, loaded, frames, approach1, temporal, strong_spectra_approach2, measurement_weak, approach3>>

\* lines 389-402: the rows flagged in the outlier columns
Approach2Strong ==
    /\ pc = "strong2"
    /\ strong_spectra_approach2' =
           StrongSpectraApproach2(measurement_df, outlier, LowerMult, UpperMult)
    /\ pc' = "weak2"
    /\ UNCHANGED <<wavenumbers, intensities, loaded, frames, approach1, temporal, outlier, measurement_weak, approach3>>

\* line 438: measurement_weak, re-indexed
Approach2Weak ==
    /\ pc = "weak2"
    /\ measurement_weak' = RowsNotIn(measurement_df, Range(strong_spectra_approach2))
    /\ pc' = "temporal2"
    /\ UNCHANGED <<wavenumbers, intensities, loaded, frames, approach1, temporal, outlier, strong_spectra_approach2, approach3>>

\* lines 472-485: the weak observations of approach 2 per 10 minutes;
\* the DateTime column is assigned from df, the weak subset of approach 1
Approach2Temporal ==
    /\ pc = "temporal2"
    /\ measurement_weak' =
           LET aligned == AlignedDateTime(measurement_weak, df)
           IN  [k \in 1..Len(measurement_weak) |->
                   [measurement_weak[k] EXCEPT !.DateTime = aligned[k]]]
    /\ count_by_period' =
           CountByPeriod([k \in 1..Len(measurement_weak') |-> measurement_weak'[k].DateTime])
    /\ interval_start' = IntervalStart(count_by_period')
    /\ interval_end' = IntervalEnd(interval_start')
    /\ pc' = "media_df"
    /\ UNCHANGED <<wavenumbers, intensities, loaded, frames, approach1, df, outlier, strong_spectra_approach2, approach3>>

\* lines 573-579: media_df
BuildMediaDf ==
    /\ pc = "media_df"
    /\ media_df' = DataFrame(header_columns_media, wavenumbers_media, intensities_media)
    /\ pc' = "mask"
    /\ UNCHANGED <<wavenumbers, intensities, loaded, measurement_df, approach1, temporal, approach2, approach3>>

\* lines 591-600: the rows that do not match the media file are strong
Approach3Mask ==
    /\ pc = "mask"
    /\ media_intensities' = IlocValues(media_df, MatchStart)
    /\ mask' = Mask(measurement_df, media_intensities')
    /\ strong_filtered_measurement_df' = RowsIn(measurement_df, MaskedLabels(mask'))
    /\ non_matching_indexes' = NonMatchingIndexes(mask')
    /\ pc' = "rebind"
    /\ UNCHANGED <<wavenumbers, intensities, loaded, frames, approach1, temporal, approach2>>

\* lines 609-610: wavenumbers and intensities are bound to the strong rows
Approach3Rebind ==
    /\ pc = "rebind"
    /\ wavenumbers' = Iloc(measurement_df.columns, MatchStart)
    /\ intensities' =
           [k \in 1..Len(strong_filtered_measurement_df) |->
               Iloc(strong_filtered_measurement_df[k].values, MatchStart)]
    /\ pc' = "done"
    /\ UNCHANGED <<loaded, frames, approach1, temporal, approach2, approach3>>

(***************************************************************************)
(* A classification section executed again after the last section          *)
(***************************************************************************)
\* lines 172-238 again.  np.max raises on rows of no columns, and
\* threshold_otsu raises on no rows after peak_intensities is bound.
RerunApproach1 ==
    /\ pc = "done"
    /\ IF Len(wavenumbers) = 0
       THEN /\ pc' = "raised"
            /\ UNCHANGED approach1
       ELSE IF Len(intensities) = 0
       THEN /\ pc' = "raised"
            /\ peak_intensities' = <<>>
            /\ UNCHANGED <<threshold, threshold_relaxed, strong_spectra, weak_spectra>>
       ELSE /\ pc' = "done"
            /\ peak_intensities' = PeakIntensities(intensities)
            /\ threshold' = ThresholdOtsu(peak_intensities')
            /\ threshold_relaxed' = ThresholdRelaxed(threshold', RelaxNum)
            /\ strong_spectra' = StrongSpectra(peak_intensities', threshold_relaxed')
            /\ weak_spectra' = WeakSpectra(peak_intensities', threshold_relaxed')
    /\ UNCHANGED <<wavenumbers, intensities, loaded, frames, temporal, approach2, approach3>>

\* lines 371-402 and 438 again
RerunApproach2 ==
    /\ pc = "done"
    /\ outlier' = Outlier(measurement_df, LowerMult, UpperMult)
    /\ strong_spectra_approach2' =
           StrongSpectraApproach2(measurement_df, outlier', LowerMult, UpperMult)
    /\ measurement_weak' = RowsNotIn(measurement_df, Range(strong_spectra_approach2'))
    /\ UNCHANGED <<wavenumbers, intensities, loaded, frames, approach1, temporal, approach3, pc>>

\* lines 591-600 again
RerunApproach3 ==
    /\ pc = "done"
    /\ media_intensities' = IlocValues(media_df, MatchStart)
    /\ mask' = Mask(measurement_df, media_intensities')
    /\ strong_filtered_measurement_df' = RowsIn(measurement_df, MaskedLabels(mask'))
    /\ non_matching_indexes' = NonMatchingIndexes(mask')
    /\ UNCHANGED <<wavenumbers, intensities, loaded, frames, approach1, temporal, approach2, pc>>

Next ==
    \/ BuildMeasurementDf
    \/ Approach1Threshold
    \/ Approach1Classify
    \/ Approach1Temporal
    \/ Approach2Outlier
    \/ Approach2Strong
    \/ Approach2Weak
    \/ Approach2Temporal
    \/ BuildMediaDf
    \/ Approach3Mask
    \/ Approach3Rebind
    \/ RerunApproach1
    \/ RerunApproach2
    \/ RerunApproach3

Spec == Init /\ [][Next]_vars

TemporalSpec == InitTemporal /\ [][Next]_vars

ScenarioSpec == InitScenario /\ [][Next]_vars

\* the runs on the files of Spec and on the files without observations
RunAllSpec == InitRunAll /\ [][Next]_vars

(***************************************************************************)
(* Where the script is                                                     *)
(***************************************************************************)
\* strong_spectra and weak_spectra hold the result of the threshold loop
Classified1 == pc \notin {"measurement_df", "threshold", "classify", "raised"}

\* strong_spectra_approach2 and measurement_weak hold the outlier result
Classified2 ==
    pc \notin {"measurement_df", "threshold", "classify", "temporal1", "outlier", "strong2", "weak2"}

\* mask and non_matching_indexes hold the result of the media match
Classified3 == pc \in {"rebind", "done", "raised"}

\* the observation indexes of a matrix or list of n rows
Indexes(n) == 0..(n - 1)

(***************************************************************************)
(* C1.  Each of the three classifications splits the observation indexes   *)
(* of the matrix it ran on into a strong and a weak set that together      *)
(* cover every index and share none.                                       *)
(***************************************************************************)
Strong1 == Range(strong_spectra)
Weak1 == Range(weak_spectra)
Strong2 == Range(strong_spectra_approach2)
Weak2 == Labels(measurement_weak)
Strong3 == Labels(strong_filtered_measurement_df)
Weak3 == Range(non_matching_indexes)

\* C1: strong and weak cover the indexes and are disjoint, per classifier
C1_Partitions ==
    /\ Classified1 =>
           /\ Strong1 \cup Weak1 = Indexes(Len(peak_intensities))
           /\ Strong1 \cap Weak1 = {}
    /\ Classified2 =>
           /\ Strong2 \cup Weak2 = Indexes(Len(measurement_df.values))
           /\ Strong2 \cap Weak2 = {}
    /\ Classified3 =>
           /\ Strong3 \cup Weak3 = Indexes(Len(measurement_df.values))
           /\ Strong3 \cap Weak3 = {}

\* all three have run; the threshold and the outlier rule each found
\* strong and weak observations
C1_Witness ==
    /\ pc = "done"
    /\ Strong1 # {} /\ Weak1 # {}
    /\ Strong2 # {} /\ Weak2 # {}
    /\ Weak3 # {}

(***************************************************************************)
(* C2.  Three flat spectra and a tenfold one, peak intensities             *)
(* <<1, 1, 1, 10>>, relax factor 0.715.  Claimed: strong = {3}, weak =     *)
(* {0, 1, 2}.  The Otsu threshold is the centre of the first bin,          *)
(* 1 + 9/512; relaxed it is below 1, so all four observations are strong.  *)
(***************************************************************************)
FlatAndTenfold == peak_intensities = <<1, 1, 1, 10>>

\* C2 as claimed: only observation 3 is strong
C2_Original ==
    (Classified1 /\ FlatAndTenfold) =>
        strong_spectra = <<3>> /\ weak_spectra = <<0, 1, 2>>

\* C2 amended: the threshold is 1 + 9/512 and all four are strong
C2_AllStrong ==
    (Classified1 /\ FlatAndTenfold) =>
        /\ threshold = 2 * nbins + 9
        /\ strong_spectra = <<0, 1, 2, 3>>
        /\ weak_spectra = <<>>

C2_Witness ==
    /\ pc = "temporal1"
    /\ measurement_df.values = <<<<1, 1, 1>>, <<1, 1, 1>>, <<1, 1, 1>>, <<10, 10, 10>>>>
    /\ FlatAndTenfold

(***************************************************************************)
(* C3.  Raising the relax factor never shrinks the weak set.  Claimed for  *)
(* every matrix; it holds when the Otsu threshold is not negative.  A      *)
(* negative threshold moves up as the factor falls.                        *)
(***************************************************************************)
\* relax factors r <= 1, as numerators over RelaxDen
RelaxFactors == {-500, 0, 500, RelaxNum, RelaxDen}

WeakCount(factor) ==
    Len(WeakSpectra(peak_intensities, ThresholdRelaxed(threshold, factor)))

WeakGrowsWithFactor ==
    \A r1, r2 \in RelaxFactors : r1 <= r2 => WeakCount(r1) <= WeakCount(r2)

\* C3 as claimed: for every threshold
C3_Original == pc = "classify" => WeakGrowsWithFactor

\* C3 amended: for every threshold that is not negative
C3_NonNegativeThreshold == (pc = "classify" /\ threshold >= 0) => WeakGrowsWithFactor

\* a positive threshold under which the default factor leaves more weak
\* observations than the factor 0, and not all of them
C3_Witness ==
    /\ pc = "classify"
    /\ threshold > 0
    /\ WeakCount(0) < WeakCount(RelaxNum)
    /\ WeakCount(RelaxNum) < Len(peak_intensities)


(***************************************************************************)
(* C4.  After each temporal count (of the weak subset of approach 1, then  *)
(* of measurement_weak of approach 2) the counts of all buckets add up to  *)
(* the number of rows of the subset.                                       *)
(***************************************************************************)
TotalCount == SumSeq([k \in 1..Len(count_by_period) |-> count_by_period[k].count])

\* C4: the bucket counts add up to the size of the subset counted
C4_CountsAddUp ==
    /\ pc = "outlier" => TotalCount = Len(df)
    /\ pc = "media_df" => TotalCount = Len(measurement_weak)

(***************************************************************************)
(* C5.  Approach 3: an observation is weak exactly when every value of     *)
(* its whole spectrum occurs somewhere in the media matrix.                *)
(***************************************************************************)
WholeRowMatches(i) ==
    \A v \in Range(measurement_df.values[i + 1]) : v \in Flattened(media_df.values)

\* C5: weak if and only if the whole row occurs in the media matrix
C5_WholeRowRule ==
    Classified3 =>
        \A i \in Indexes(Len(measurement_df.values)) :
            /\ i \in Weak3 <=> WholeRowMatches(i)
            /\ i \in Strong3 <=> ~WholeRowMatches(i)

(***************************************************************************)
(* C6.  Executing a classification again gives the partition it gave       *)
(* before, whatever has run in between.                                    *)
(***************************************************************************)
\* C6: a section executed again leaves every partition as it was
C6_RerunSamePartition ==
    [][(pc = "done" /\ pc' = "done") =>
          /\ strong_spectra' = strong_spectra
          /\ weak_spectra' = weak_spectra
          /\ Strong2' = Strong2 /\ Weak2' = Weak2
          /\ Strong3' = Strong3 /\ Weak3' = Weak3]_vars

(***************************************************************************)
(* C7.  Approach 2 with larger fence multipliers: the strong set is a      *)
(* subset of the strong set found with smaller multipliers.                *)
(***************************************************************************)
Multipliers == {0, 1, UpperMult, LowerMult}

\* the strong set of approach 2 under the multipliers k_lo, k_hi
StrongUnder(k_lo, k_hi) ==
    Range(StrongSpectraApproach2(measurement_df,
                                 Outlier(measurement_df, k_lo, k_hi), k_lo, k_hi))

\* C7: larger multipliers give a subset of the strong set
C7_WiderFencesFewerStrong ==
    pc = "outlier" =>
        LET strong == [k \in Multipliers \X Multipliers |-> StrongUnder(k[1], k[2])]
        IN  \A small, large \in Multipliers \X Multipliers :
                (small[1] <= large[1] /\ small[2] <= large[2])
                    => strong[large] \subseteq strong[small]

\* the default multipliers flag some observation, and fewer than the
\* multipliers 0 and 0 do
C7_Witness ==
    /\ pc = "outlier"
    /\ StrongUnder(LowerMult, UpperMult) # {}
    /\ StrongUnder(LowerMult, UpperMult) # StrongUnder(0, 0)

(***************************************************************************)
(* C8.  When all peak intensities are equal the threshold classification   *)
(* fails: no threshold is returned and no observation is labelled.         *)
(***************************************************************************)
AllPeaksEqual ==
    /\ peak_intensities # <<>>
    /\ \A i, j \in 1..Len(peak_intensities) : peak_intensities[i] = peak_intensities[j]

\* C8: with equal peaks the script does not get past the threshold
C8_EqualPeaksFail ==
    AllPeaksEqual => (pc = "threshold" \/ pc = "raised")

(***************************************************************************)
(* C9.  When the wavenumber axis of the media file differs from that of    *)
(* the measurement file, approach 3 fails and labels no observation.       *)
(***************************************************************************)
AxesDiffer ==
    /\ measurement_df # NoFrame
    /\ wavenumbers_media # measurement_df.columns

\* C9: with differing axes approach 3 yields no partition
C9_AxisMismatchFails == AxesDiffer => ~Classified3

(***************************************************************************)
(* C10.  The buckets of a temporal count follow each other without         *)
(* overlap.  Claimed: each bucket ends where the next one starts.  A       *)
(* 10-minute interval without observations has no bucket, so the next      *)
(* bucket may start later than the one before it ends.                     *)
(***************************************************************************)
Counted == pc \in {"outlier", "media_df"}

\* C10 as claimed: each bucket ends where the next starts
C10_Original ==
    Counted =>
        \A k \in 1..(Len(interval_start) - 1) : interval_end[k] = interval_start[k + 1]

\* C10 amended: each bucket ends no later than the next starts, and
\* exactly there when no 10-minute interval lies between them
C10_NoOverlap ==
    Counted =>
        /\ Len(interval_end) = Len(interval_start)
        /\ \A k \in 1..Len(interval_start) :
               interval_end[k] = interval_start[k] + BucketMinutes
        /\ \A k \in 1..(Len(interval_start) - 1) :
               /\ interval_end[k] <= interval_start[k + 1]
               /\ interval_end[k] = interval_start[k + 1]
                      <=> ~\E b \in (interval_end[k])..(interval_start[k + 1] - 1) :
                              b % BucketMinutes = 0

\* three buckets: the second starts where the first ends, the third later
C10_Witness ==
    /\ Counted
    /\ Len(interval_start) = 3
    /\ interval_end[1] = interval_start[2]
    /\ interval_end[2] < interval_start[3]

(***************************************************************************)
(* C11.  Approach 2: the strong observations are exactly those with a      *)
(* value strictly outside the fences of some wavenumber column; an         *)
(* observation whose values lie inside or on the fences of every column    *)
(* is weak.                                                                *)
(***************************************************************************)
\* observation i has a value strictly outside the fences of some column
StrictlyOutsideSomewhere(i) ==
    \E j \in IlocColumns(measurement_df, WaveStart) :
        StrictlyOutside(measurement_df.values[i + 1][j],
                        Bounds(Column(measurement_df, j), LowerMult, UpperMult))

\* C11: strong if and only if strictly outside the fences of some column
C11_StrictlyOutsideRule ==
    Classified2 =>
        \A i \in Indexes(Len(measurement_df.values)) :
            /\ i \in Strong2 <=> StrictlyOutsideSomewhere(i)
            /\ i \in Weak2 <=> ~StrictlyOutsideSomewhere(i)

(***************************************************************************)
(* C12.  Each temporal count holds every observation of the subset it      *)
(* counts exactly once, in the bucket that starts at the observation's     *)
(* own timestamp floored to 10 minutes, and lists the buckets in           *)
(* ascending order.  Claimed for the weak subset of approach 1 and for     *)
(* measurement_weak of approach 2.                                         *)
(***************************************************************************)
\* the timestamp the measurement file gives observation i
OwnTimestamp(i) == header_columns[i + 1]

\* the start of the 10-minute interval that holds minute t
BucketOf(t) == BucketMinutes * (t \div BucketMinutes)

\* the buckets of the observations S by their own timestamps, ascending,
\* each with the number of observations of S that fall into it
OwnBuckets(S) ==
    LET starts == Ascending({BucketOf(OwnTimestamp(i)) : i \in S})
    IN  [k \in 1..Len(starts) |->
            [start |-> starts[k],
             count |-> Cardinality({i \in S : BucketOf(OwnTimestamp(i)) = starts[k]})]]

\* the count of approach 1 alone
ThresholdWeakCounted == pc = "outlier" => count_by_period = OwnBuckets(Labels(df))

\* the count of approach 2 alone
OutlierWeakCounted ==
    pc = "media_df" => count_by_period = OwnBuckets(Labels(measurement_weak))

\* C12: both counts are the buckets of the subset's own timestamps
C12_OwnTimestampBuckets == ThresholdWeakCounted /\ OutlierWeakCounted

(***************************************************************************)
(* C13.  When approach 1 aborts on its input, approach 2 and approach 3    *)
(* are still executed in the same run and produce their partitions.  The   *)
(* script has no handler around a section: an exception raised in          *)
(* approach 1 ends the run, and no section is executed after it.           *)
(***************************************************************************)
\* the run has ended on an exception of approach 1
Approach1Raised == pc = "raised"

\* approach 3 has bound media_intensities to the rows of the media file;
\* in file order approach 2 has run before it
OthersHaveRun == media_df # NoFrame /\ media_intensities # <<>>

\* C13: a run that approach 1 has ended holds the results of approach 2
\* and approach 3
C13_OthersStillRun == Approach1Raised => OthersHaveRun

====
